---- MODULE Spec2Model ----
(***************************************************************************)
(* A state-machine model of src/controller/linuxdo.go: the LinuxDo OAuth   *)
(* login/bind handlers (package controller) and the Claude provider        *)
(* adapter (package claude): factory, error decode hook, request headers,  *)
(* request URL, finish-reason / role tables and mergeCustomParams.         *)
(***************************************************************************)
EXTENDS Integers, Sequences, FiniteSets, TLC

VARIABLES
    \* ---- mergeCustomParams (lines 392-448) ----
    requestMap,         \* the outbound body, mutated in place
    customParams,       \* the administrator's custom-parameter spec
    origRequest,        \* requestMap as it was when the call started
    shouldOverwrite,    \* local of the same name
    perModel,           \* local of the same name
    customParamsModel,  \* local of the same name: the map the loop ranges over
    pending,            \* keys of customParamsModel the range loop has not visited
    mpc,                \* position inside mergeCustomParams
    \* ---- the Claude provider (lines 300-374) ----
    channel,            \* the channel record handed to the factory
    provider,           \* <<>> or <<p>>: the *ClaudeProvider that Create returned
    created,            \* "no", "yes", or "panic" when Create dereferenced a nil Proxy
    versionHeader,      \* the inbound request's values under anthropic-version
    commonHeaders,      \* what CommonRequestHeaders put into the header map
    headers,            \* <<>> or <<h>>: the map GetRequestHeaders returned
    requestURL,         \* the argument of the last GetFullRequestURL call
    fullURL,            \* <<>> or <<u>>: the string it returned
    response,           \* the vendor response the error hook was last run on
    openAIError,        \* <<>> (nil) or <<e>>: what RequestErrorHandle returned
    \* ---- the LinuxDo OAuth handlers (lines 40-285) ----
    config,             \* the global config flags and client credentials
    users,              \* the user store: Id -> user record
    sysLog,             \* what logger.SysError has written
    rpc,                \* per request: position in the handler
    query,              \* per request: the query parameters state and code
    session,            \* per request: the session's oauth_state, username, id
    handler,            \* per request: "oauth" or "bind", who called getLinuxDoUserInfoByCode
    tokenRes,           \* per request: <<>> or <<outcome of the token-exchange call>>
    userRes,            \* per request: <<>> or <<outcome of the user-info call>>
    linuxDoUser,        \* per request: <<>> or <<the decoded LinuxDoUser>>
    user,               \* per request: <<>> (nil) or <<the handler's *model.User>>
    reply,              \* per request: <<>> or <<the JSON response written>>
    ops,                \* per request: the outbound and user-store calls made so far
    \* ---- the finish-reason and role tables (lines 376-389, 450-457) ----
    stopReason,         \* the vendor's stop_reason
    finishReason,       \* <<>> or <<stopReasonClaude2OpenAI(stopReason)>>
    finishReasonAgain,  \* <<>> or <<stopReasonClaude2OpenAI of finishReason>>
    role,               \* the role of a message of the canonical request
    claudeRole          \* <<>> or <<convertRole(role)>>

mergeVars == <<requestMap, customParams, origRequest, shouldOverwrite, perModel,
               customParamsModel, pending, mpc>>

providerVars == <<channel, provider, created, versionHeader, commonHeaders, headers,
                  requestURL, fullURL, response, openAIError>>

oauthVars == <<config, users, sysLog, rpc, query, session, handler, tokenRes, userRes,
               linuxDoUser, user, reply, ops>>

tableVars == <<stopReason, finishReason, finishReasonAgain, role, claudeRole>>

vars == <<mergeVars, providerVars, oauthVars, tableVars>>

----------------------------------------------------------------------------
(* Go values of type interface{} as they come out of a JSON document: a    *)
(* pair <<dynamic type, content>>. A nested object is named by the second  *)
(* component and its content is given by NestedMap.                        *)

Absent    == <<"absent", "">>
BoolTrue  == <<"bool", "true">>
BoolFalse == <<"bool", "false">>
Str(s)    == <<"string", s>>
Num(s)    == <<"number", s>>
MapRef(m) == <<"map", m>>

EmptyMap == [k \in {} |-> Absent]

\* A Go pointer, or a value that may be nil: <<>> for nil, <<x>> for one to x.
NilPtr == <<>>
Ptr(x) == <<x>>

Has(m, k) == k \in DOMAIN m

\* The map holding exactly the pairs <<key, value>> whose value is not Absent.
MkMap(pairs) ==
    LET present == {p \in pairs : p[2] # Absent}
    IN  [k \in {p[1] : p \in present} |-> (CHOOSE p \in present : p[1] = k)[2]]

\* Go's m[k] = v on a map.
MapSet(m, k, v) == [x \in (DOMAIN m) \cup {k} |-> IF x = k THEN v ELSE m[x]]

ReservedKeys == {"stream", "overwrite", "per_model", "pre_add"}

\* The model-scoped sub-objects a spec may hold under a model name.
NestedMap(m) ==
    CASE m = "full"  -> MkMap({<<"temperature", Num("3")>>, <<"stream", BoolTrue>>,
                               <<"overwrite", BoolTrue>>, <<"per_model", BoolFalse>>,
                               <<"pre_add", BoolTrue>>, <<"model", Str("m2")>>})
      [] m = "small" -> MkMap({<<"temperature", Num("3")>>})
      [] OTHER       -> EmptyMap

\* How many of the reserved control keys the caller's body may carry itself.
MaxBodyReserved == 1

\* Values the three boolean control keys take in a spec: absent, the two
\* booleans and a value that is not a boolean.
FlagValues == {Absent, BoolTrue, BoolFalse, Str("true")}

CallerValue(k) == IF k = "stream" THEN BoolFalse ELSE Str("caller")

----------------------------------------------------------------------------
(* The LinuxDo OAuth handlers, package controller (lines 40-285)           *)

\* Requests in flight at once.
NumRequests == 2

\* LinuxDo account ids the identity provider hands out are 1..MaxLinuxDoId.
MaxLinuxDoId == 2

Requests == 1..NumRequests

\* http.StatusOK (lines 68, 94, 139) and http.StatusForbidden (line 125)
StatusOK == 200

StatusForbidden == 403

\* strconv.Itoa
Digit(d) ==
    CASE d = 0 -> "0" [] d = 1 -> "1" [] d = 2 -> "2" [] d = 3 -> "3" [] d = 4 -> "4"
      [] d = 5 -> "5" [] d = 6 -> "6" [] d = 7 -> "7" [] d = 8 -> "8" [] d = 9 -> "9"

RECURSIVE Itoa(_)
Itoa(n) ==
    IF n < 0 THEN "-" \o Itoa(0 - n)
    ELSE IF n < 10 THEN Digit(n)
    ELSE Itoa(n \div 10) \o Digit(n % 10)

\* An error's or a response's text: the sequence of the pieces it is made of.
Text(piece) == <<piece>>

\* The fixed texts of the handlers.
MsgInvalidParam     == Text("invalid parameter")                          \* line 42
MsgConfigIncomplete == Text("LinuxDo OAuth configuration incomplete")     \* line 45
MsgRetryLater       == Text("cannot reach the LinuxDo server, retry later")  \* 65, 69, 91, 95
MsgEmptyToken       == Text("illegal response, access_token empty, retry later")  \* line 78
MsgEmptyId          == Text("illegal response, user id empty, retry later")       \* line 104
MsgStateMismatch    == Text("state is empty or not same")                 \* line 127
MsgOAuthDisabled    == Text("LinuxDo login and registration not enabled") \* 141, 231
MsgNotEligible      == Text("LinuxDo account not eligible to register")   \* line 171
MsgRegisterClosed   == Text("registration of new users is closed")        \* line 178
MsgBanned           == Text("user is banned")                             \* line 218
MsgAlreadyBound     == Text("this LinuxDo account is already bound")      \* line 250
MsgBind             == Text("bind")                                       \* line 283

\* Error texts that come from outside the handlers.
ErrConnRefused == "dial tcp 104.18.0.1:443: connect: connection refused"
ErrBodyTimeout == "context deadline exceeded (Client.Timeout or context cancellation while reading body)"
ErrJSONSyntax  == "invalid character looking for beginning of value"
ErrDatabase    == "database is locked"

\* Transport-level failures of an outbound call: at connect, and while the body
\* of a response whose headers have arrived is read.
TransportErrors == {ErrConnRefused, ErrBodyTimeout}

NoLinuxDoUser ==
    [Id |-> 0, Username |-> "", Name |-> "", AvatarTemplate |-> "", Active |-> FALSE,
     TrustLevel |-> 0]

\* What client.Do and the read of the response body can give for one call:
\* doErr is client.Do's error, readErr the body reader's, syntaxErr the JSON
\* decoder's own, accessToken / user what the body decodes to.
Outcome(doErr, status, readErr, syntaxErr, accessToken, u) ==
    [doErr |-> doErr, status |-> status, readErr |-> readErr, syntaxErr |-> syntaxErr,
     accessToken |-> accessToken, user |-> u]

TokenOutcomes ==
    {Outcome(ErrConnRefused, 0, "", "", "", NoLinuxDoUser),
     Outcome("", 502, "", "", "", NoLinuxDoUser),
     Outcome("", StatusOK, ErrBodyTimeout, "", "", NoLinuxDoUser),
     Outcome("", StatusOK, "", ErrJSONSyntax, "", NoLinuxDoUser),
     Outcome("", StatusOK, "", "", "", NoLinuxDoUser),
     Outcome("", StatusOK, "", "", "token-1", NoLinuxDoUser)}

LinuxDoProfiles ==
    {NoLinuxDoUser}
    \cup {[Id |-> i, Username |-> "ld", Name |-> "Neo", AvatarTemplate |-> "avatar.png",
           Active |-> TRUE, TrustLevel |-> 1] : i \in 1..MaxLinuxDoId}
    \cup {[Id |-> 1, Username |-> "ld", Name |-> "", AvatarTemplate |-> "",
           Active |-> TRUE, TrustLevel |-> 0],
          [Id |-> 1, Username |-> "ld", Name |-> "", AvatarTemplate |-> "",
           Active |-> FALSE, TrustLevel |-> 2]}

UserOutcomes ==
    {Outcome(ErrConnRefused, 0, "", "", "", NoLinuxDoUser),
     Outcome("", 502, "", "", "", NoLinuxDoUser),
     Outcome("", StatusOK, ErrBodyTimeout, "", "", NoLinuxDoUser),
     Outcome("", StatusOK, "", ErrJSONSyntax, "", NoLinuxDoUser)}
    \cup {Outcome("", StatusOK, "", "", "", u) : u \in LinuxDoProfiles}

\* json.NewDecoder(body).Decode: the reader's error if the read fails, else the
\* decoder's own, else none ("")
DecodeError(out) == IF out.readErr # "" THEN out.readErr ELSE out.syntaxErr

\* The result of a step of getLinuxDoUserInfoByCode: err is <<>> or the text of
\* the error returned, logged the lines written with logger.SysError.
Step(err, logged) == [err |-> err, logged |-> logged]

\* lines 41-46
CheckArguments(code, cfg) ==
    IF code = "" THEN Step(MsgInvalidParam, {})
    ELSE IF cfg.LinuxDoClientId = "" \/ cfg.LinuxDoClientSecret = ""
         THEN Step(MsgConfigIncomplete, {})
         ELSE Step(<<>>, {})

\* lines 62-79 without the test of line 77
TokenExchangeResult_EmptyTokenAccepted(out) ==
    IF out.doErr # ""
    THEN Step(MsgRetryLater, {<<"cannot reach the LinuxDo server(token), err:", out.doErr>>})
    ELSE IF out.status # StatusOK THEN Step(MsgRetryLater, {})
    ELSE IF DecodeError(out) # "" THEN Step(Text(DecodeError(out)), {})
    ELSE Step(<<>>, {})

\* lines 62-79
TokenExchangeResult(out) ==
    IF out.doErr # ""
    THEN Step(MsgRetryLater, {<<"cannot reach the LinuxDo server(token), err:", out.doErr>>})
    ELSE IF out.status # StatusOK THEN Step(MsgRetryLater, {})
    ELSE IF DecodeError(out) # "" THEN Step(Text(DecodeError(out)), {})
    ELSE IF out.accessToken = "" THEN Step(MsgEmptyToken, {})
    ELSE Step(<<>>, {})

\* lines 88-105
UserFetchResult(out) ==
    IF out.doErr # ""
    THEN Step(MsgRetryLater, {<<"cannot reach the LinuxDo server(user), err:", out.doErr>>})
    ELSE IF out.status # StatusOK THEN Step(MsgRetryLater, {})
    ELSE IF DecodeError(out) # "" THEN Step(Text(DecodeError(out)), {})
    ELSE IF out.user.Id = 0 THEN Step(MsgEmptyId, {})
    ELSE Step(<<>>, {})

\* c.JSON(status, gin.H{"success": ..., "message": ...})
JSON(status, success, message) ==
    Ptr([status |-> status, success |-> success, message |-> message])

\* lines 149-155, 158-164, 206-210, 238-244, 259-265, 273-279
ReplyError(err) == JSON(StatusOK, FALSE, err)

NoSession == [oauth_state |-> NilPtr, username |-> NilPtr, id |-> NilPtr]

\* The user-store records (model.User).
UserRecord(id, username, displayName, linuxDoId, status, inviterId, avatarUrl) ==
    [Id |-> id, Username |-> username, DisplayName |-> displayName,
     LinuxDoId |-> linuxDoId, Role |-> "common", Status |-> status,
     InviterId |-> inviterId, AvatarUrl |-> avatarUrl]

Alice == UserRecord(1, "alice", "Alice", "", "enabled", 0, "")

\* The OAuth variables while other operations are looked at.
OAuthIdle ==
    /\ config = [LinuxDoOAuthEnabled |-> FALSE, RegisterEnabled |-> FALSE,
                 LinuxDoClientId |-> "", LinuxDoClientSecret |-> ""]
    /\ users = <<>>
    /\ sysLog = {}
    /\ rpc = [r \in Requests |-> "idle"]
    /\ query = [r \in Requests |-> [state |-> "", code |-> ""]]
    /\ session = [r \in Requests |-> NoSession]
    /\ handler = [r \in Requests |-> "oauth"]
    /\ tokenRes = [r \in Requests |-> NilPtr]
    /\ userRes = [r \in Requests |-> NilPtr]
    /\ linuxDoUser = [r \in Requests |-> NilPtr]
    /\ user = [r \in Requests |-> NilPtr]
    /\ reply = [r \in Requests |-> NilPtr]
    /\ ops = [r \in Requests |-> <<>>]

\* The configuration and the user store when the requests arrive. The store is
\* a sequence: a user's Id is its index.
OAuthInit ==
    /\ config \in [LinuxDoOAuthEnabled : BOOLEAN, RegisterEnabled : BOOLEAN,
                   LinuxDoClientId : {"", "client"}, LinuxDoClientSecret : {"", "secret"}]
    /\ users \in {<<Alice>>,
                  <<Alice, UserRecord(2, "linuxdo_1", "Neo", "1", "enabled", 0, "")>>,
                  <<Alice, UserRecord(2, "linuxdo_1", "Neo", "1", "disabled", 0, "")>>}
    /\ sysLog = {}
    /\ rpc = [r \in Requests |-> "idle"]
    /\ query = [r \in Requests |-> [state |-> "", code |-> ""]]
    /\ session = [r \in Requests |-> NoSession]
    /\ handler = [r \in Requests |-> "oauth"]
    /\ tokenRes = [r \in Requests |-> NilPtr]
    /\ userRes = [r \in Requests |-> NilPtr]
    /\ linuxDoUser = [r \in Requests |-> NilPtr]
    /\ user = [r \in Requests |-> NilPtr]
    /\ reply = [r \in Requests |-> NilPtr]
    /\ ops = [r \in Requests |-> <<>>]

\* A request reaches LinuxDoOAuth with its query parameters and its session.
Arrive(r) ==
    /\ rpc[r] = "idle"
    /\ \E st \in {<<"s1", Ptr("s1")>>, <<"", Ptr("s1")>>, <<"s2", Ptr("s1")>>,
                  <<"s1", NilPtr>>},
          code \in {"", "code-1"},
          login \in {<<NilPtr, NilPtr>>, <<Ptr("alice"), Ptr(1)>>} :
        /\ query' = [query EXCEPT ![r] = [state |-> st[1], code |-> code]]
        /\ session' = [session EXCEPT ![r] = [oauth_state |-> st[2],
                                              username |-> login[1], id |-> login[2]]]
    /\ rpc' = [rpc EXCEPT ![r] = "entry"]
    /\ UNCHANGED <<config, users, sysLog, handler, tokenRes, userRes, linuxDoUser, user,
                   reply, ops>>
    /\ UNCHANGED <<mergeVars, providerVars, tableVars>>

\* Variant: line 124 with only its first test, state == "".
StateAccepted_AnyNonEmptyState(q, sess) == ~(q.state = "")

\* line 124: the state parameter against the session's oauth_state
StateAccepted(q, sess) ==
    ~(q.state = "" \/ sess.oauth_state = NilPtr \/ q.state # sess.oauth_state[1])

\* lines 122-147: LinuxDoOAuth up to the call of getLinuxDoUserInfoByCode
OAuthEntry(r) ==
    /\ rpc[r] = "entry"
    /\ IF ~StateAccepted(query[r], session[r])
       THEN /\ reply' = [reply EXCEPT ![r] = JSON(StatusForbidden, FALSE, MsgStateMismatch)]
            /\ rpc' = [rpc EXCEPT ![r] = "done"]
            /\ UNCHANGED handler
       ELSE IF session[r].username # NilPtr
       THEN /\ rpc' = [rpc EXCEPT ![r] = "bind"]
            /\ UNCHANGED <<reply, handler>>
       ELSE IF ~config.LinuxDoOAuthEnabled
       THEN /\ reply' = [reply EXCEPT ![r] = JSON(StatusOK, FALSE, MsgOAuthDisabled)]
            /\ rpc' = [rpc EXCEPT ![r] = "done"]
            /\ UNCHANGED handler
       ELSE /\ handler' = [handler EXCEPT ![r] = "oauth"]
            /\ rpc' = [rpc EXCEPT ![r] = "args"]
            /\ UNCHANGED reply
    /\ UNCHANGED <<config, users, sysLog, query, session, tokenRes, userRes, linuxDoUser,
                   user, ops>>
    /\ UNCHANGED <<mergeVars, providerVars, tableVars>>

\* lines 228-237: LinuxDoBind up to the call of getLinuxDoUserInfoByCode
BindEntry(r) ==
    /\ rpc[r] = "bind"
    /\ IF ~config.LinuxDoOAuthEnabled
       THEN /\ reply' = [reply EXCEPT ![r] = JSON(StatusOK, FALSE, MsgOAuthDisabled)]
            /\ rpc' = [rpc EXCEPT ![r] = "done"]
            /\ UNCHANGED handler
       ELSE /\ handler' = [handler EXCEPT ![r] = "bind"]
            /\ rpc' = [rpc EXCEPT ![r] = "args"]
            /\ UNCHANGED reply
    /\ UNCHANGED <<config, users, sysLog, query, session, tokenRes, userRes, linuxDoUser,
                   user, ops>>
    /\ UNCHANGED <<mergeVars, providerVars, tableVars>>

\* lines 41-46, and the caller's error reply (149-155, 238-244)
InfoArguments(r) ==
    /\ rpc[r] = "args"
    /\ LET res == CheckArguments(query[r].code, config)
       IN  IF res.err # <<>>
           THEN /\ reply' = [reply EXCEPT ![r] = ReplyError(res.err)]
                /\ rpc' = [rpc EXCEPT ![r] = "done"]
           ELSE /\ rpc' = [rpc EXCEPT ![r] = "token"]
                /\ UNCHANGED reply
    /\ UNCHANGED <<config, users, sysLog, query, session, handler, tokenRes, userRes,
                   linuxDoUser, user, ops>>
    /\ UNCHANGED <<mergeVars, providerVars, tableVars>>

\* lines 48-79: the token exchange, and the caller's error reply
TokenExchange(r) ==
    /\ rpc[r] = "token"
    /\ \E out \in TokenOutcomes :
        LET res == TokenExchangeResult(out)
        IN  /\ tokenRes' = [tokenRes EXCEPT ![r] = Ptr(out)]
            /\ sysLog' = sysLog \cup res.logged
            /\ IF res.err # <<>>
               THEN /\ reply' = [reply EXCEPT ![r] = ReplyError(res.err)]
                    /\ rpc' = [rpc EXCEPT ![r] = "done"]
               ELSE /\ rpc' = [rpc EXCEPT ![r] = "user_info"]
                    /\ UNCHANGED reply
    /\ UNCHANGED <<config, users, query, session, handler, userRes, linuxDoUser, user>>
    /\ ops' = [ops EXCEPT ![r] = Append(@, "token")]
    /\ UNCHANGED <<mergeVars, providerVars, tableVars>>

\* lines 81-107: the user-info fetch, and the caller's error reply
UserFetch(r) ==
    /\ rpc[r] = "user_info"
    /\ \E out \in UserOutcomes :
        LET res == UserFetchResult(out)
        IN  /\ userRes' = [userRes EXCEPT ![r] = Ptr(out)]
            /\ sysLog' = sysLog \cup res.logged
            /\ IF res.err # <<>>
               THEN /\ reply' = [reply EXCEPT ![r] = ReplyError(res.err)]
                    /\ rpc' = [rpc EXCEPT ![r] = "done"]
                    /\ UNCHANGED linuxDoUser
               ELSE /\ linuxDoUser' = [linuxDoUser EXCEPT ![r] = Ptr(out.user)]
                    /\ rpc' = [rpc EXCEPT ![r] =
                                 IF handler[r] = "oauth" THEN "taken" ELSE "bind_taken"]
                    /\ UNCHANGED reply
    /\ UNCHANGED <<config, users, query, session, handler, tokenRes, user>>
    /\ ops' = [ops EXCEPT ![r] = Append(@, "user_info")]
    /\ UNCHANGED <<mergeVars, providerVars, tableVars>>

\* model.IsLinuxDoIdAlreadyTaken
IsLinuxDoIdAlreadyTaken(store, linuxDoId) ==
    \E i \in 1..Len(store) : store[i].LinuxDoId = linuxDoId

\* lines 111-112: getUserByLinuxDo's test
OAuthIsTaken(r) ==
    /\ rpc[r] = "taken"
    /\ rpc' = [rpc EXCEPT ![r] =
                 IF IsLinuxDoIdAlreadyTaken(users, Itoa(linuxDoUser[r][1].Id))
                 THEN "find" ELSE "register"]
    /\ UNCHANGED <<config, users, sysLog, query, session, handler, tokenRes, userRes,
                   linuxDoUser, user, reply>>
    /\ ops' = [ops EXCEPT ![r] = Append(@, "is_taken")]
    /\ UNCHANGED <<mergeVars, providerVars, tableVars>>

\* lines 113-118, 157-166, 212-214: model.FindUserByField("linuxdo_id", id)
OAuthFind(r) ==
    /\ rpc[r] = "find"
    /\ LET linuxDoId == Itoa(linuxDoUser[r][1].Id)
           found     == {i \in 1..Len(users) : users[i].LinuxDoId = linuxDoId}
       IN  \/ /\ \E i \in found :
                    user' = [user EXCEPT ![r] =
                               Ptr([users[i] EXCEPT !.LinuxDoId = linuxDoId])]
              /\ rpc' = [rpc EXCEPT ![r] = "login"]
              /\ UNCHANGED reply
           \/ /\ reply' = [reply EXCEPT ![r] =
                             ReplyError(Text(IF found = {} THEN "record not found"
                                                           ELSE ErrDatabase))]
              /\ rpc' = [rpc EXCEPT ![r] = "done"]
              /\ UNCHANGED user
    /\ UNCHANGED <<config, users, sysLog, query, session, handler, tokenRes, userRes,
                   linuxDoUser>>
    /\ ops' = [ops EXCEPT ![r] = Append(@, "find")]
    /\ UNCHANGED <<mergeVars, providerVars, tableVars>>

\* lines 183-203: the record a registration builds
NewUser(ld, inviterId) ==
    LET linuxDoId == Itoa(ld.Id)
        username  == "linuxdo_" \o linuxDoId
    IN  UserRecord(0, username, IF ld.Name # "" THEN ld.Name ELSE username,
                   linuxDoId, "enabled", inviterId, "")

\* lines 167-211: user == nil, the registration gates and user.Insert. The aff
\* query parameter and GetUserIdByAffCode (lines 189-195) only decide inviterId:
\* 0 when there is no code or no such inviter, else the inviter's Id.
OAuthRegister(r) ==
    /\ rpc[r] = "register"
    /\ LET ld == linuxDoUser[r][1]
       IN  IF ~ld.Active \/ ld.TrustLevel < 1
           THEN /\ reply' = [reply EXCEPT ![r] = JSON(StatusOK, FALSE, MsgNotEligible)]
                /\ rpc' = [rpc EXCEPT ![r] = "done"]
                /\ UNCHANGED <<users, user, ops>>
           ELSE IF ~config.RegisterEnabled
           THEN /\ reply' = [reply EXCEPT ![r] = JSON(StatusOK, FALSE, MsgRegisterClosed)]
                /\ rpc' = [rpc EXCEPT ![r] = "done"]
                /\ UNCHANGED <<users, user, ops>>
           ELSE /\ ops' = [ops EXCEPT ![r] = Append(@, "insert")]
                /\ \/ \E inviterId \in {0, 1} :
                        LET rec == [NewUser(ld, inviterId) EXCEPT !.Id = Len(users) + 1]
                        IN  /\ users' = Append(users, rec)
                            /\ user' = [user EXCEPT ![r] = Ptr(rec)]
                            /\ rpc' = [rpc EXCEPT ![r] = "login"]
                            /\ UNCHANGED reply
                   \/ /\ reply' = [reply EXCEPT ![r] = ReplyError(Text(ErrDatabase))]
                      /\ rpc' = [rpc EXCEPT ![r] = "done"]
                      /\ UNCHANGED <<users, user>>
    /\ UNCHANGED <<config, sysLog, query, session, handler, tokenRes, userRes,
                   linuxDoUser>>
    /\ UNCHANGED <<mergeVars, providerVars, tableVars>>

\* lines 216-224: the status test and setupLogin
OAuthLogin(r) ==
    /\ rpc[r] = "login"
    /\ IF user[r][1].Status # "enabled"
       THEN /\ reply' = [reply EXCEPT ![r] = JSON(StatusOK, FALSE, MsgBanned)]
            /\ UNCHANGED <<session, ops>>
       ELSE /\ session' = [session EXCEPT ![r].username = Ptr(user[r][1].Username),
                                          ![r].id = Ptr(user[r][1].Id)]
            /\ reply' = [reply EXCEPT ![r] = JSON(StatusOK, TRUE, Text(""))]
            /\ ops' = [ops EXCEPT ![r] = Append(@, "setup_login")]
    /\ rpc' = [rpc EXCEPT ![r] = "done"]
    /\ UNCHANGED <<config, users, sysLog, query, handler, tokenRes, userRes, linuxDoUser,
                   user>>
    /\ UNCHANGED <<mergeVars, providerVars, tableVars>>

\* lines 246-253
BindIsTaken(r) ==
    /\ rpc[r] = "bind_taken"
    /\ IF IsLinuxDoIdAlreadyTaken(users, Itoa(linuxDoUser[r][1].Id))
       THEN /\ reply' = [reply EXCEPT ![r] = JSON(StatusOK, FALSE, MsgAlreadyBound)]
            /\ rpc' = [rpc EXCEPT ![r] = "done"]
       ELSE /\ rpc' = [rpc EXCEPT ![r] = "bind_fill"]
            /\ UNCHANGED reply
    /\ UNCHANGED <<config, users, sysLog, query, session, handler, tokenRes, userRes,
                   linuxDoUser, user>>
    /\ ops' = [ops EXCEPT ![r] = Append(@, "is_taken")]
    /\ UNCHANGED <<mergeVars, providerVars, tableVars>>

\* lines 255-265: the session's id and user.FillUserById
BindFill(r) ==
    /\ rpc[r] = "bind_fill"
    /\ LET id == session[r].id[1]
       IN  \/ /\ id \in 1..Len(users)
              /\ user' = [user EXCEPT ![r] = Ptr(users[id])]
              /\ rpc' = [rpc EXCEPT ![r] = "bind_update"]
              /\ UNCHANGED reply
           \/ /\ reply' = [reply EXCEPT ![r] =
                             ReplyError(Text(IF id \in 1..Len(users) THEN ErrDatabase
                                                                    ELSE "record not found"))]
              /\ rpc' = [rpc EXCEPT ![r] = "done"]
              /\ UNCHANGED user
    /\ UNCHANGED <<config, users, sysLog, query, session, handler, tokenRes, userRes,
                   linuxDoUser>>
    /\ ops' = [ops EXCEPT ![r] = Append(@, "fill")]
    /\ UNCHANGED <<mergeVars, providerVars, tableVars>>

\* lines 267-270: the fields LinuxDoBind sets before the update
BoundUser(u, ld) ==
    [u EXCEPT !.LinuxDoId = Itoa(ld.Id),
              !.AvatarUrl = IF u.AvatarUrl = "" /\ ld.AvatarTemplate # ""
                            THEN ld.AvatarTemplate ELSE u.AvatarUrl]

\* lines 267-285: user.Update(false) and the reply
BindUpdate(r) ==
    /\ rpc[r] = "bind_update"
    /\ LET rec == BoundUser(user[r][1], linuxDoUser[r][1])
       IN  /\ user' = [user EXCEPT ![r] = Ptr(rec)]
           /\ \/ /\ users' = [users EXCEPT ![rec.Id] = rec]
                 /\ reply' = [reply EXCEPT ![r] = JSON(StatusOK, TRUE, MsgBind)]
              \/ /\ reply' = [reply EXCEPT ![r] = ReplyError(Text(ErrDatabase))]
                 /\ UNCHANGED users
    /\ rpc' = [rpc EXCEPT ![r] = "done"]
    /\ UNCHANGED <<config, sysLog, query, session, handler, tokenRes, userRes,
                   linuxDoUser>>
    /\ ops' = [ops EXCEPT ![r] = Append(@, "update")]
    /\ UNCHANGED <<mergeVars, providerVars, tableVars>>

----------------------------------------------------------------------------
(* The finish-reason and role tables, package claude (lines 376-389,       *)
(* 450-457)                                                                *)

\* types.FinishReason*: the canonical finish reasons.
FinishReasonStop          == "stop"
FinishReasonLength        == "length"
FinishReasonToolCalls     == "tool_calls"
FinishReasonContentFilter == "content_filter"

\* types.ChatMessageRole*: the canonical roles.
ChatMessageRoleUser      == "user"
ChatMessageRoleTool      == "tool"
ChatMessageRoleFunction  == "function"
ChatMessageRoleAssistant == "assistant"
ChatMessageRoleSystem    == "system"

\* Variant: the refusal case of lines 384-385 left out.
stopReasonClaude2OpenAI_RefusalPassedThrough(reason) ==
    CASE reason \in {"end_turn", "stop_sequence"} -> FinishReasonStop
      [] reason = "max_tokens"                     -> FinishReasonLength
      [] reason = "tool_use"                       -> FinishReasonToolCalls
      [] OTHER                                     -> reason

\* lines 376-389
stopReasonClaude2OpenAI(reason) ==
    CASE reason \in {"end_turn", "stop_sequence"} -> FinishReasonStop
      [] reason = "max_tokens"                     -> FinishReasonLength
      [] reason = "tool_use"                       -> FinishReasonToolCalls
      [] reason = "refusal"                        -> FinishReasonContentFilter
      [] OTHER                                     -> reason

\* Variant: only the user role of line 452 kept, the default passing the role on.
convertRole_DefaultPassedThrough(r) ==
    CASE r = ChatMessageRoleUser -> ChatMessageRoleUser
      [] OTHER                   -> r

\* lines 450-457
convertRole(r) ==
    CASE r \in {ChatMessageRoleUser, ChatMessageRoleTool, ChatMessageRoleFunction}
              -> ChatMessageRoleUser
      [] OTHER -> ChatMessageRoleAssistant

\* Stop reasons a vendor response may carry: the five the switch names, the
\* canonical ones, and strings it does not know, the empty one among them.
StopReasons ==
    {"end_turn", "stop_sequence", "max_tokens", "tool_use", "refusal",
     FinishReasonStop, FinishReasonLength, FinishReasonToolCalls, FinishReasonContentFilter,
     "", "pause_turn", "unknown_vendor_reason", "END_TURN", "end_turn "}

\* Roles a message may carry: the canonical ones and strings that are none.
Roles ==
    {ChatMessageRoleUser, ChatMessageRoleTool, ChatMessageRoleFunction,
     ChatMessageRoleAssistant, ChatMessageRoleSystem, "developer", "", "User", "tool "}

\* The table variables while other operations are looked at.
TablesIdle ==
    /\ stopReason = ""
    /\ finishReason = NilPtr
    /\ finishReasonAgain = NilPtr
    /\ role = ""
    /\ claudeRole = NilPtr

\* A vendor response with its stop_reason and a request message with its role.
TablesInit ==
    /\ stopReason \in StopReasons
    /\ finishReason = NilPtr
    /\ finishReasonAgain = NilPtr
    /\ role \in Roles
    /\ claudeRole = NilPtr

\* stopReasonClaude2OpenAI on the vendor's stop_reason
NormalizeStopReason ==
    /\ finishReason = NilPtr
    /\ finishReason' = Ptr(stopReasonClaude2OpenAI(stopReason))
    /\ UNCHANGED <<stopReason, finishReasonAgain, role, claudeRole>>
    /\ UNCHANGED <<mergeVars, providerVars, oauthVars>>

\* stopReasonClaude2OpenAI on a finish reason that is already its result
NormalizeStopReasonAgain ==
    /\ finishReason # NilPtr
    /\ finishReasonAgain = NilPtr
    /\ finishReasonAgain' = Ptr(stopReasonClaude2OpenAI(finishReason[1]))
    /\ UNCHANGED <<stopReason, finishReason, role, claudeRole>>
    /\ UNCHANGED <<mergeVars, providerVars, oauthVars>>

\* convertRole on the message's role
ConvertRole ==
    /\ claudeRole = NilPtr
    /\ claudeRole' = Ptr(convertRole(role))
    /\ UNCHANGED <<stopReason, finishReason, finishReasonAgain, role>>
    /\ UNCHANGED <<mergeVars, providerVars, oauthVars>>

TablesNext == NormalizeStopReason \/ NormalizeStopReasonAgain \/ ConvertRole

----------------------------------------------------------------------------
(* Strings the code inspects character by character are sequences of       *)
(* one-character strings.                                                  *)

\* line 319
DefaultBaseURL ==
    <<"h", "t", "t", "p", "s", ":", "/", "/", "a", "p", "i", ".", "a", "n",
    "t", "h", "r", "o", "p", "i", "c", ".", "c", "o", "m">>

\* line 320
ChatCompletionsPath ==
    <<"/", "v", "1", "/", "m", "e", "s", "s", "a", "g", "e", "s">>

\* line 321
ModelListPath ==
    <<"/", "v", "1", "/", "m", "o", "d", "e", "l", "s">>

\* line 369
GatewayPrefix ==
    <<"h", "t", "t", "p", "s", ":", "/", "/", "g", "a", "t", "e", "w", "a",
    "y", ".", "a", "i", ".", "c", "l", "o", "u", "d", "f", "l", "a", "r",
    "e", ".", "c", "o", "m">>

\* line 370
VersionPrefix ==
    <<"/", "v", "1">>

\* line 368
Slash ==
    <<"/">>

\* Base-URL overrides a channel may carry, before any trailing slashes.
ExampleBase ==
    <<"h", "t", "t", "p", "s", ":", "/", "/", "a", "p", "i", ".", "e", "x",
    "a", "m", "p", "l", "e", ".", "c", "o", "m">>

GatewayAccountBase ==
    <<"h", "t", "t", "p", "s", ":", "/", "/", "g", "a", "t", "e", "w", "a",
    "y", ".", "a", "i", ".", "c", "l", "o", "u", "d", "f", "l", "a", "r",
    "e", ".", "c", "o", "m", "/", "x", "/", "y">>

PlainHttpGatewayBase ==
    <<"h", "t", "t", "p", ":", "/", "/", "g", "a", "t", "e", "w", "a", "y",
    ".", "a", "i", ".", "c", "l", "o", "u", "d", "f", "l", "a", "r", "e",
    ".", "c", "o", "m">>

GatewayLookalikeBase ==
    <<"h", "t", "t", "p", "s", ":", "/", "/", "g", "a", "t", "e", "w", "a",
    "y", ".", "a", "i", ".", "c", "l", "o", "u", "d", "f", "l", "a", "r",
    "e", ".", "c", "o", "m", "m", "u", "n", "i", "t", "y">>

\* Endpoint paths handed to GetFullRequestURL besides the two configured ones.
UnversionedPath ==
    <<"/", "m", "e", "s", "s", "a", "g", "e", "s">>

BetaPath ==
    <<"/", "v", "1", "b", "e", "t", "a", "/", "m", "o", "d", "e", "l", "s">>

RelativePath ==
    <<"v", "1", "/", "m", "e", "s", "s", "a", "g", "e", "s">>

\* How many "/" may follow a channel's base-URL override.
MaxTrailingSlashes == 2

RECURSIVE Slashes(_)
Slashes(n) == IF n = 0 THEN <<>> ELSE Slash \o Slashes(n - 1)

\* strings.HasPrefix, strings.HasSuffix, strings.TrimPrefix, strings.TrimSuffix
HasPrefix(s, prefix) ==
    Len(s) >= Len(prefix) /\ SubSeq(s, 1, Len(prefix)) = prefix

HasSuffix(s, suffix) ==
    Len(s) >= Len(suffix) /\ SubSeq(s, Len(s) - Len(suffix) + 1, Len(s)) = suffix

TrimPrefix(s, prefix) ==
    IF HasPrefix(s, prefix) THEN SubSeq(s, Len(prefix) + 1, Len(s)) ELSE s

TrimSuffix(s, suffix) ==
    IF HasSuffix(s, suffix) THEN SubSeq(s, 1, Len(s) - Len(suffix)) ELSE s

----------------------------------------------------------------------------
(* The Claude provider: factory, error hook, headers, URL (lines 300-374)  *)

\* The state before any provider operation has run.
ProviderIdle ==
    /\ channel = [Key |-> "", BaseURL |-> <<>>, Proxy |-> NilPtr]
    /\ provider = NilPtr
    /\ created = "no"
    /\ versionHeader = <<>>
    /\ commonHeaders = EmptyMap
    /\ headers = NilPtr
    /\ requestURL = <<>>
    /\ fullURL = NilPtr
    /\ response = [decodable |-> FALSE, type |-> NilPtr, error |-> NilPtr]
    /\ openAIError = NilPtr

\* lines 317-323
getConfig ==
    [BaseURL |-> DefaultBaseURL, ChatCompletions |-> ChatCompletionsPath,
     ModelList |-> ModelListPath]

\* Channel records the factory may be handed: credential, base-URL override
\* (empty when unset) and proxy pointer.
Channels ==
    [Key     : {"", "sk-ant-1"},
     BaseURL : {<<>>}
               \cup {b \o Slashes(n) :
                       b \in {ExampleBase, GatewayPrefix, GatewayAccountBase,
                              PlainHttpGatewayBase, GatewayLookalikeBase},
                       n \in 0..MaxTrailingSlashes},
     Proxy   : {NilPtr, Ptr("")}]

\* lines 303-311; *channel.Proxy on a nil pointer panics
Create ==
    /\ created = "no"
    /\ \E ch \in Channels :
        /\ channel' = ch
        /\ IF ch.Proxy = NilPtr
           THEN /\ created' = "panic"
                /\ UNCHANGED provider
           ELSE /\ created' = "yes"
                /\ provider' = Ptr([Config |-> getConfig, Channel |-> ch])
    /\ UNCHANGED <<versionHeader, commonHeaders, headers, requestURL, fullURL,
                   response, openAIError>>
    /\ UNCHANGED <<mergeVars, oauthVars, tableVars>>

\* The ClaudeError a response body decodes to: the wire object's "type" and
\* "error" members, a missing member leaving the zero value.
DecodeClaudeError(body) ==
    [Type      |-> IF body.type = NilPtr THEN "" ELSE body.type[1],
     ErrorInfo |-> IF body.error = NilPtr
                   THEN [Type |-> "", Message |-> ""]
                   ELSE [Type    |-> IF body.error[1].type = NilPtr
                                     THEN "" ELSE body.error[1].type[1],
                         Message |-> IF body.error[1].message = NilPtr
                                     THEN "" ELSE body.error[1].message[1]]]

\* Variant: Code taken from the sub-type instead of the top-level type.
errorHandle_CodeFromSubType(claudeError) ==
    IF claudeError = NilPtr
    THEN NilPtr
    ELSE IF claudeError[1].Type = ""
         THEN NilPtr
         ELSE Ptr([Message |-> claudeError[1].ErrorInfo.Message,
                   Type    |-> claudeError[1].ErrorInfo.Type,
                   Code    |-> claudeError[1].ErrorInfo.Type])

\* lines 337-350
errorHandle(claudeError) ==
    IF claudeError = NilPtr
    THEN NilPtr
    ELSE IF claudeError[1].Type = ""
         THEN NilPtr
         ELSE Ptr([Message |-> claudeError[1].ErrorInfo.Message,
                   Type    |-> claudeError[1].ErrorInfo.Type,
                   Code    |-> claudeError[1].Type])

\* Vendor responses the transport may hand to the hook: a body that does not
\* decode, or a JSON object with optional "type" and "error" members.
ErrorMembers ==
    {NilPtr,
     Ptr([type |-> Ptr("authentication_error"), message |-> Ptr("invalid x-api-key")]),
     Ptr([type |-> NilPtr, message |-> Ptr("overloaded")])}

Responses ==
    [decodable : BOOLEAN,
     type      : {NilPtr, Ptr(""), Ptr("error"), Ptr("authentication_error")},
     error     : ErrorMembers]

\* lines 326-334
RequestErrorHandle ==
    /\ created = "yes"
    /\ \E resp \in Responses :
        /\ response' = resp
        /\ openAIError' = IF ~resp.decodable
                          THEN NilPtr
                          ELSE errorHandle(Ptr(DecodeClaudeError(resp)))
    /\ UNCHANGED <<channel, provider, created, versionHeader, commonHeaders, headers,
                   requestURL, fullURL>>
    /\ UNCHANGED <<mergeVars, oauthVars, tableVars>>

\* http.Header.Get: the first value stored under the key, "" when there is none
HeaderGet(values) == IF values = <<>> THEN "" ELSE values[1]

\* What the base provider's CommonRequestHeaders may leave in the map: content
\* negotiation, and channel-configured headers that may use any key.
CommonHeaderMaps ==
    {EmptyMap,
     MkMap({<<"Content-Type", Str("application/json")>>, <<"Accept", Str("*/*")>>}),
     MkMap({<<"Content-Type", Str("application/json")>>,
            <<"x-api-key", Str("from-common")>>,
            <<"anthropic-version", Str("from-common")>>})}

\* Variant: a vendor header is written only where the map has none yet.
VendorHeaders_KeepExisting(h, key, anthropicVersion) ==
    LET v  == IF anthropicVersion = "" THEN "2023-06-01" ELSE anthropicVersion
        h1 == IF Has(h, "x-api-key") THEN h ELSE MapSet(h, "x-api-key", Str(key))
    IN  IF Has(h1, "anthropic-version") THEN h1 ELSE MapSet(h1, "anthropic-version", Str(v))

\* lines 357-362
VendorHeaders(h, key, anthropicVersion) ==
    LET v == IF anthropicVersion = "" THEN "2023-06-01" ELSE anthropicVersion
    IN  MapSet(MapSet(h, "x-api-key", Str(key)), "anthropic-version", Str(v))

\* lines 353-365
GetRequestHeaders ==
    /\ created = "yes"
    /\ \E values \in {<<>>, <<"">>, <<"2023-01-01">>, <<"2024-10-22", "2023-01-01">>},
          common \in CommonHeaderMaps :
        /\ versionHeader' = values
        /\ commonHeaders' = common
        /\ headers' = Ptr(VendorHeaders(common, provider[1].Channel.Key, HeaderGet(values)))
    /\ UNCHANGED <<channel, provider, created, requestURL, fullURL, response,
                   openAIError>>
    /\ UNCHANGED <<mergeVars, oauthVars, tableVars>>

\* The base provider's GetBaseURL: the channel's override when set, else the
\* vendor default.
GetBaseURL(p) ==
    IF p.Channel.BaseURL # <<>> THEN p.Channel.BaseURL ELSE p.Config.BaseURL

\* Variant: the gateway test of line 369 left out, /v1 always stripped.
FullRequestURL_AlwaysStrip(base, path) ==
    TrimSuffix(base, Slash) \o TrimPrefix(path, VersionPrefix)

\* lines 368-373
FullRequestURL(base, path) ==
    LET baseURL == TrimSuffix(base, Slash)
        url     == IF HasPrefix(baseURL, GatewayPrefix)
                   THEN TrimPrefix(path, VersionPrefix)
                   ELSE path
    IN  baseURL \o url

\* lines 367-374
GetFullRequestURL ==
    /\ created = "yes"
    /\ \E path \in {getConfig.ChatCompletions, getConfig.ModelList, UnversionedPath,
                    BetaPath, RelativePath, VersionPrefix, <<>>} :
        /\ requestURL' = path
        /\ fullURL' = Ptr(FullRequestURL(GetBaseURL(provider[1]), path))
    /\ UNCHANGED <<channel, provider, created, versionHeader, commonHeaders, headers,
                   response, openAIError>>
    /\ UNCHANGED <<mergeVars, oauthVars, tableVars>>

\* The merge variables while the provider operations are looked at.
MergeIdle ==
    /\ requestMap = EmptyMap
    /\ customParams = EmptyMap
    /\ origRequest = EmptyMap
    /\ shouldOverwrite = FALSE
    /\ perModel = FALSE
    /\ customParamsModel = EmptyMap
    /\ pending = {}
    /\ mpc = "entry"

ProviderNext == Create \/ RequestErrorHandle \/ GetRequestHeaders \/ GetFullRequestURL

InitProvider == ProviderIdle /\ MergeIdle /\ OAuthIdle /\ TablesIdle

SpecProvider == InitProvider /\ [][ProviderNext]_vars

----------------------------------------------------------------------------
(* Properties of the provider operations.                                  *)

\* The wire value of an optional string member, "" when the member is missing.
Member(m) == IF m = NilPtr THEN "" ELSE m[1]

\* C6: the hook returns nothing for a body that does not decode or whose
\* top-level type is empty, and otherwise exactly {message: error.message,
\* type: error.type, code: type} of the envelope it was given.
C6_ErrorHookNormalizes ==
    IF ~response.decodable \/ Member(response.type) = ""
    THEN openAIError = NilPtr
    ELSE /\ openAIError # NilPtr
         /\ openAIError[1].Code = Member(response.type)
         /\ openAIError[1].Message =
                (IF response.error = NilPtr THEN "" ELSE Member(response.error[1].message))
         /\ openAIError[1].Type =
                (IF response.error = NilPtr THEN "" ELSE Member(response.error[1].type))
         /\ DOMAIN openAIError[1] = {"Message", "Type", "Code"}

\* C6 witness: the 401 envelope of the scenario went through the hook.
C6_Witness ==
    /\ response.decodable
    /\ response.type = Ptr("authentication_error")
    /\ response.error # NilPtr
    /\ response.error[1].message = Ptr("invalid x-api-key")
    /\ openAIError = Ptr([Message |-> "invalid x-api-key",
                          Type    |-> Member(response.error[1].type),
                          Code    |-> "authentication_error"])

\* C7: the returned map has x-api-key equal to the channel credential and
\* anthropic-version equal to the caller's first non-empty value, else
\* 2023-06-01, whatever the common-header step stored under those keys.
C7_VendorHeadersWin ==
    headers # NilPtr =>
        /\ Has(headers[1], "x-api-key")
        /\ headers[1]["x-api-key"] = Str(channel.Key)
        /\ Has(headers[1], "anthropic-version")
        /\ headers[1]["anthropic-version"] =
               Str(IF versionHeader # <<>> /\ versionHeader[1] # ""
                   THEN versionHeader[1]
                   ELSE "2023-06-01")
        /\ \A k \in (DOMAIN commonHeaders) \ {"x-api-key", "anthropic-version"} :
               Has(headers[1], k) /\ headers[1][k] = commonHeaders[k]

\* C7 witness: the common step had stored both keys, the caller sent an empty
\* anthropic-version, and the map came back with the vendor values.
C7_Witness ==
    /\ headers # NilPtr
    /\ Has(commonHeaders, "x-api-key") /\ Has(commonHeaders, "anthropic-version")
    /\ versionHeader = <<"">>
    /\ channel.Key = "sk-ant-1"
    /\ headers[1]["x-api-key"] = Str("sk-ant-1")
    /\ headers[1]["anthropic-version"] = Str("2023-06-01")
    /\ Has(headers[1], "Content-Type")

ExampleFullURL ==
    <<"h", "t", "t", "p", "s", ":", "/", "/", "a", "p", "i", ".", "e", "x",
    "a", "m", "p", "l", "e", ".", "c", "o", "m", "/", "v", "1", "/", "m",
    "e", "s", "s", "a", "g", "e", "s">>

GatewayFullURL ==
    <<"h", "t", "t", "p", "s", ":", "/", "/", "g", "a", "t", "e", "w", "a",
    "y", ".", "a", "i", ".", "c", "l", "o", "u", "d", "f", "l", "a", "r",
    "e", ".", "c", "o", "m", "/", "x", "/", "y", "/", "m", "e", "s", "s",
    "a", "g", "e", "s">>

\* The base URL the provider resolves: the channel's override, else the default.
ResolvedBase == IF channel.BaseURL = <<>> THEN DefaultBaseURL ELSE channel.BaseURL

\* C8: character by character, the result is the base without one trailing "/"
\* followed by the path, the path losing its first three characters exactly
\* when they are "/v1" and the trimmed base starts with the gateway prefix.
C8_FullRequestURL ==
    fullURL # NilPtr =>
        LET base    == ResolvedBase
            path    == requestURL
            url     == fullURL[1]
            kept    == IF base # <<>> /\ base[Len(base)] = "/"
                       THEN Len(base) - 1 ELSE Len(base)
            gateway == /\ kept >= Len(GatewayPrefix)
                       /\ \A i \in 1..Len(GatewayPrefix) : base[i] = GatewayPrefix[i]
            skipped == IF /\ gateway
                          /\ Len(path) >= 3
                          /\ path[1] = "/" /\ path[2] = "v" /\ path[3] = "1"
                       THEN 3 ELSE 0
        IN  /\ Len(url) = kept + Len(path) - skipped
            /\ \A i \in 1..kept : url[i] = base[i]
            /\ \A j \in 1..(Len(path) - skipped) : url[kept + j] = path[skipped + j]
            /\ (base = ExampleBase \o Slash /\ path = ChatCompletionsPath)
                   => url = ExampleFullURL
            /\ (base = GatewayAccountBase /\ path = ChatCompletionsPath)
                   => url = GatewayFullURL

\* C8 witness: both examples' inputs are reachable; this is the gateway one,
\* with a trailing slash on the base as well.
C8_Witness ==
    /\ fullURL # NilPtr
    /\ channel.BaseURL = GatewayAccountBase \o Slash
    /\ requestURL = ChatCompletionsPath
    /\ fullURL[1] = GatewayFullURL

\* C9: an adapter exists only for a channel with a non-empty credential, and no
\* header map with an empty x-api-key is ever built.
C9_EmptyCredentialYieldsNoAdapter ==
    /\ created = "yes" => channel.Key # ""
    /\ headers # NilPtr => headers[1]["x-api-key"] # Str("")

----------------------------------------------------------------------------
(* mergeCustomParams, lines 392-448 *)

\* lines 394-399
OverwriteFlag(cp) ==
    IF Has(cp, "overwrite")
    THEN IF cp["overwrite"][1] = "bool" THEN cp["overwrite"] = BoolTrue ELSE FALSE
    ELSE FALSE

\* Variant: the pre_add return of lines 401-404 left out.
PreAddFlag_Ignored(cp) == FALSE

\* line 402: exists && preAdd == true
PreAddFlag(cp) == Has(cp, "pre_add") /\ cp["pre_add"] = BoolTrue

\* lines 407-412
PerModelFlag(cp) ==
    IF Has(cp, "per_model")
    THEN IF cp["per_model"][1] = "bool" THEN cp["per_model"] = BoolTrue ELSE FALSE
    ELSE FALSE

\* lines 414-427
SelectParams(rm, cp, pm) ==
    IF pm
    THEN IF Has(rm, "model") /\ rm["model"][1] = "string"
         THEN LET modelValue == rm["model"][2]
              IN  IF Has(cp, modelValue)
                  THEN IF cp[modelValue][1] = "map"
                       THEN NestedMap(cp[modelValue][2])
                       ELSE EmptyMap
                  ELSE EmptyMap
         ELSE cp
    ELSE cp

\* Variant: the key list of the comment on line 431, which lacks "pre_add".
IsReservedKey_AsCommented(key) ==
    key = "stream" \/ key = "overwrite" \/ key = "per_model"

\* line 432
IsReservedKey(key) ==
    key = "stream" \/ key = "overwrite" \/ key = "per_model" \/ key = "pre_add"

\* Variant: the existence test of line 441 left out.
StoreParam_AlwaysSet(rm, key, value, overwrite) == MapSet(rm, key, value)

\* Variant: the overwrite branch of lines 436-438 left out.
StoreParam_OnlyWhenAbsent(rm, key, value, overwrite) ==
    IF ~Has(rm, key) THEN MapSet(rm, key, value) ELSE rm

\* Variant: the existence test of line 441 made on the key "m1", not on the
\* loop's key.
StoreParam_TestsFixedKey(rm, key, value, overwrite) ==
    IF overwrite
    THEN MapSet(rm, key, value)
    ELSE IF ~Has(rm, "m1") THEN MapSet(rm, key, value) ELSE rm

\* lines 436-444
StoreParam(rm, key, value, overwrite) ==
    IF overwrite
    THEN MapSet(rm, key, value)
    ELSE IF ~Has(rm, key) THEN MapSet(rm, key, value) ELSE rm

\* The caller's body and the channel's spec at the call.
MergeInit ==
    /\ \E model \in {Absent, Str("m1"), Str("m2"), Num("7")},
          temperature \in {Absent, Num("1")},
          carried \in {R \in SUBSET ReservedKeys : Cardinality(R) <= MaxBodyReserved} :
            requestMap = MkMap({<<"model", model>>, <<"temperature", temperature>>}
                               \cup {<<k, CallerValue(k)>> : k \in carried})
    /\ \E overwrite \in FlagValues, per_model \in FlagValues, pre_add \in FlagValues,
          stream \in {Absent, BoolTrue},
          temperature \in {Absent, Num("2")},
          m1 \in {Absent, MapRef("full"), MapRef("small"), Str("x")} :
            customParams = MkMap({<<"overwrite", overwrite>>, <<"per_model", per_model>>,
                                  <<"pre_add", pre_add>>, <<"stream", stream>>,
                                  <<"temperature", temperature>>, <<"m1", m1>>})
    /\ origRequest = requestMap
    /\ shouldOverwrite = FALSE
    /\ perModel = FALSE
    /\ customParamsModel = EmptyMap
    /\ pending = {}
    /\ mpc = "entry"

\* lines 393-427: the flags, the pre_add return and the choice of the map to range over
MergeBegin ==
    /\ mpc = "entry"
    /\ shouldOverwrite' = OverwriteFlag(customParams)
    /\ IF PreAddFlag(customParams)
       THEN /\ mpc' = "returned"
            /\ UNCHANGED <<perModel, customParamsModel, pending>>
       ELSE /\ perModel' = PerModelFlag(customParams)
            /\ customParamsModel' = SelectParams(requestMap, customParams, perModel')
            /\ pending' = DOMAIN customParamsModel'
            /\ mpc' = "range"
    /\ UNCHANGED <<requestMap, customParams, origRequest>>
    /\ UNCHANGED <<providerVars, oauthVars, tableVars>>

\* lines 430-445: one iteration of the range loop, keys in any order
MergeIterate ==
    /\ mpc = "range"
    /\ \E key \in pending :
        /\ pending' = pending \ {key}
        /\ requestMap' = IF IsReservedKey(key)
                         THEN requestMap
                         ELSE StoreParam(requestMap, key, customParamsModel[key],
                                         shouldOverwrite)
    /\ UNCHANGED <<customParams, origRequest, shouldOverwrite, perModel,
                   customParamsModel, mpc>>
    /\ UNCHANGED <<providerVars, oauthVars, tableVars>>

\* line 447
MergeReturn ==
    /\ mpc = "range"
    /\ pending = {}
    /\ mpc' = "returned"
    /\ UNCHANGED <<requestMap, customParams, origRequest, shouldOverwrite, perModel,
                   customParamsModel, pending>>
    /\ UNCHANGED <<providerVars, oauthVars, tableVars>>

MergeNext == MergeBegin \/ MergeIterate \/ MergeReturn

InitMerge == MergeInit /\ ProviderIdle /\ OAuthIdle /\ TablesIdle

SpecMerge == InitMerge /\ [][MergeNext]_vars

----------------------------------------------------------------------------
(* Properties of mergeCustomParams, stated on the spec S = customParams,   *)
(* the body B = origRequest and the body as it is now, requestMap.         *)

SpecOverwriteOn == Has(customParams, "overwrite") /\ customParams["overwrite"] = BoolTrue
SpecPreAddOn    == Has(customParams, "pre_add") /\ customParams["pre_add"] = BoolTrue
SpecPerModelOn  == Has(customParams, "per_model") /\ customParams["per_model"] = BoolTrue

\* B["model"] names an entry of S that is a key-value map.
ModelEntryMatches ==
    /\ Has(origRequest, "model")
    /\ origRequest["model"][1] = "string"
    /\ Has(customParams, origRequest["model"][2])
    /\ customParams[origRequest["model"][2]][1] = "map"

\* The active parameter set as section 4.3 defines it: the spec itself, or with
\* per_model the sub-map stored under the request's model, or nothing.
ActiveParameterSet ==
    IF SpecPerModelOn
    THEN IF ModelEntryMatches
         THEN NestedMap(customParams[origRequest["model"][2]][2])
         ELSE EmptyMap
    ELSE customParams

\* Keys the body has now and did not have at the call, or holds with another value.
ChangedKeys ==
    {k \in DOMAIN requestMap : ~Has(origRequest, k) \/ requestMap[k] # origRequest[k]}

\* C1: with overwrite false, absent or not a boolean, every key the body had at
\* the call is still there with the value it had, at every point of the merge.
C1_OverwriteOffKeepsCallerValues ==
    ~SpecOverwriteOn =>
        \A k \in DOMAIN origRequest : Has(requestMap, k) /\ requestMap[k] = origRequest[k]

\* C1 witness: a merge with a non-boolean overwrite value has returned, it met a
\* key the caller had set (temperature) and it added a key the caller had not.
C1_Witness ==
    /\ mpc = "returned"
    /\ Has(customParams, "overwrite") /\ customParams["overwrite"] = Str("true")
    /\ ~SpecPreAddOn /\ ~SpecPerModelOn
    /\ Has(customParams, "temperature") /\ Has(origRequest, "temperature")
    /\ customParams["temperature"] # origRequest["temperature"]
    /\ requestMap["temperature"] = origRequest["temperature"]
    /\ Has(requestMap, "m1") /\ ~Has(origRequest, "m1")

\* C2 as written: with overwrite true, once the merge has returned every
\* non-reserved key of the active parameter set is in the body with the value the
\* active parameter set gives it.
C2_OverwriteOnSetsEveryActiveKey ==
    (mpc = "returned" /\ SpecOverwriteOn) =>
        \A k \in (DOMAIN ActiveParameterSet) \ ReservedKeys :
            Has(requestMap, k) /\ requestMap[k] = ActiveParameterSet[k]

\* C2 amended: the same, for specs whose pre_add is not true.
C2_OverwriteOnSetsEveryActiveKeyUnlessPreAdd ==
    (mpc = "returned" /\ SpecOverwriteOn /\ ~SpecPreAddOn) =>
        \A k \in (DOMAIN ActiveParameterSet) \ ReservedKeys :
            Has(requestMap, k) /\ requestMap[k] = ActiveParameterSet[k]

\* C2 witness: overwrite on, per_model on, the model's sub-map replaced the
\* caller's temperature.
C2_Witness ==
    /\ mpc = "returned"
    /\ SpecOverwriteOn /\ ~SpecPreAddOn /\ SpecPerModelOn /\ ModelEntryMatches
    /\ Has(origRequest, "temperature")
    /\ Has(ActiveParameterSet, "temperature")
    /\ requestMap["temperature"] = ActiveParameterSet["temperature"]
    /\ requestMap["temperature"] # origRequest["temperature"]

\* C3: with pre_add present and true the body is never touched, whatever
\* overwrite, per_model and the other keys of the spec are.
C3_PreAddLeavesBodyUnchanged ==
    SpecPreAddOn => requestMap = origRequest

\* C3 witness: a merge under pre_add has returned although overwrite was on and
\* the spec held a temperature other than the caller's.
C3_Witness ==
    /\ mpc = "returned"
    /\ SpecPreAddOn /\ SpecOverwriteOn
    /\ Has(customParams, "temperature") /\ Has(origRequest, "temperature")
    /\ customParams["temperature"] # origRequest["temperature"]
    /\ Has(customParams, "m1")

\* C4: with per_model true and no matching entry for B["model"] in the spec, the
\* merge returns the body as it was.
C4_PerModelMissLeavesBodyUnchanged ==
    (mpc = "returned" /\ SpecPerModelOn /\ ~ModelEntryMatches) => requestMap = origRequest

\* C5: a reserved control key is in the body exactly when the caller put it
\* there, and then with the caller's value, at every point of the merge.
C5_ReservedKeysNeverCopied ==
    \A r \in ReservedKeys :
        /\ Has(requestMap, r) <=> Has(origRequest, r)
        /\ Has(origRequest, r) => requestMap[r] = origRequest[r]

\* C5 witness: overwrite on, the loop ran over a sub-map holding all four
\* reserved keys and changed the body, and the caller's own pre_add is intact.
C5_Witness ==
    /\ mpc = "returned"
    /\ SpecOverwriteOn /\ SpecPerModelOn /\ ModelEntryMatches
    /\ ReservedKeys \subseteq DOMAIN ActiveParameterSet
    /\ Has(customParams, "stream")
    /\ Has(origRequest, "pre_add") /\ origRequest["pre_add"] # ActiveParameterSet["pre_add"]
    /\ ChangedKeys # {}

\* A control flag of S holds a value that is not a boolean.
FlagMalformed(k) == Has(customParams, k) /\ customParams[k][1] # "bool"

\* S has a malformed or missing field: a non-boolean flag, or with per_model
\* true no entry for the request's model, or one that is not a map.
SpecFieldMalformedOrMissing ==
    \/ \E k \in {"overwrite", "per_model", "pre_add"} : FlagMalformed(k)
    \/ SpecPerModelOn /\ ~ModelEntryMatches

\* C12: the merge has no failure mode, and a spec with a malformed or missing
\* field degrades to "no extra parameters applied": the body returned is the
\* body that was passed in.
C12_MalformedSpecDegradesToNoOp ==
    /\ mpc \in {"entry", "range", "returned"}
    /\ (mpc = "returned" /\ SpecFieldMalformedOrMissing) => requestMap = origRequest

\* C15: with per_model true, whatever the body holds under model, the map the
\* loop ranges over is the sub-map stored under the body's model name or the
\* empty map, and every key the merge has added or replaced is a key of it.
C15_PerModelScopesToModelEntry ==
    SpecPerModelOn =>
        /\ ChangedKeys \subseteq DOMAIN ActiveParameterSet
        /\ (mpc # "entry" /\ ~SpecPreAddOn) => customParamsModel = ActiveParameterSet

\* The body the merge of B and S ends with, told without the loop: the keys of
\* B and the non-reserved keys of the map chosen for B and S, a key of both
\* holding the chosen map's value with overwrite on and B's value otherwise.
MergedBody ==
    IF SpecPreAddOn THEN origRequest
    ELSE LET chosen == SelectParams(origRequest, customParams, PerModelFlag(customParams))
             keys   == DOMAIN chosen \ ReservedKeys
         IN  [k \in DOMAIN origRequest \cup keys |->
                 IF k \in keys /\ (OverwriteFlag(customParams) \/ ~Has(origRequest, k))
                 THEN chosen[k] ELSE origRequest[k]]

\* C19: whatever order the loop visits the keys in, the merge of B and S returns
\* the same body; and once the loop has started, overwrite mode, per_model mode
\* and the map ranged over are what B and S gave at the call, whatever the loop
\* has written into the body since.
C19_VisitingOrderDoesNotMatter ==
    /\ mpc = "returned" => requestMap = MergedBody
    /\ mpc = "range" =>
           /\ shouldOverwrite = OverwriteFlag(customParams)
           /\ perModel = PerModelFlag(customParams)
           /\ customParamsModel = SelectParams(origRequest, customParams, perModel)
           /\ pending \subseteq DOMAIN customParamsModel

\* C19 witness: a per-model merge with overwrite on has returned after writing
\* two keys, one of them the body's model, the key the choice of the map to
\* range over was made on.
C19_Witness ==
    /\ mpc = "returned"
    /\ SpecOverwriteOn /\ SpecPerModelOn /\ ModelEntryMatches
    /\ origRequest["model"] = Str("m1")
    /\ requestMap["model"] = Str("m2")
    /\ Has(origRequest, "temperature")
    /\ requestMap["temperature"] # origRequest["temperature"]

----------------------------------------------------------------------------
(* The two tables as a specification, and their properties.                *)

InitTables == TablesInit /\ MergeIdle /\ ProviderIdle /\ OAuthIdle

SpecTables == InitTables /\ [][TablesNext]_vars

\* C13: stopReasonClaude2OpenAI gives a result for every stop reason: stop for
\* end_turn and stop_sequence, length for max_tokens, tool_calls for tool_use,
\* content_filter for refusal, and every other string, the empty one too, as it
\* came; applied to its own result it gives that result again.
C13_FinishReasonTotalAndIdempotent ==
    /\ finishReason # NilPtr =>
           finishReason[1] = CASE stopReason = "end_turn"      -> "stop"
                               [] stopReason = "stop_sequence" -> "stop"
                               [] stopReason = "max_tokens"    -> "length"
                               [] stopReason = "tool_use"      -> "tool_calls"
                               [] stopReason = "refusal"       -> "content_filter"
                               [] OTHER                        -> stopReason
    /\ finishReasonAgain # NilPtr => finishReasonAgain = finishReason

\* C13 witness: a refusal was normalised to content_filter, and normalising
\* that once more left it as it was.
C13_Witness ==
    /\ stopReason = "refusal"
    /\ finishReason = Ptr("content_filter")
    /\ finishReasonAgain = Ptr("content_filter")

\* C14: convertRole gives user for user, tool and function and assistant for
\* every other role; its result is never anything but user or assistant.
C14_RoleTotalOntoUserAssistant ==
    claudeRole # NilPtr =>
        /\ claudeRole[1] \in {"user", "assistant"}
        /\ role \in {"user", "tool", "function"} => claudeRole[1] = "user"
        /\ role \notin {"user", "tool", "function"} => claudeRole[1] = "assistant"

\* C14 witness: a tool message was given the user role.
C14_Witness ==
    /\ role = "tool"
    /\ claudeRole = Ptr("user")

----------------------------------------------------------------------------
(* The OAuth handlers as a specification: requests run concurrently, one   *)
(* step of one request at a time.                                          *)

OAuthNext ==
    \E r \in Requests :
        \/ Arrive(r)
        \/ OAuthEntry(r)
        \/ BindEntry(r)
        \/ InfoArguments(r)
        \/ TokenExchange(r)
        \/ UserFetch(r)
        \/ OAuthIsTaken(r)
        \/ OAuthFind(r)
        \/ OAuthRegister(r)
        \/ OAuthLogin(r)
        \/ BindIsTaken(r)
        \/ BindFill(r)
        \/ BindUpdate(r)

InitOAuth == OAuthInit /\ MergeIdle /\ ProviderIdle /\ TablesIdle

SpecOAuth == InitOAuth /\ [][OAuthNext]_vars

----------------------------------------------------------------------------
(* Properties of the OAuth handlers.                                       *)

\* The raw texts of the transport failures request r's outbound calls met.
TransportFailures(r) ==
    {e \in TransportErrors :
        \/ tokenRes[r] # NilPtr /\ (tokenRes[r][1].doErr = e \/ tokenRes[r][1].readErr = e)
        \/ userRes[r] # NilPtr /\ (userRes[r][1].doErr = e \/ userRes[r][1].readErr = e)}

\* The text t has the piece e in it.
Contains(t, e) == \E i \in 1..Len(t) : t[i] = e

\* C10: a request whose token exchange or user-info fetch failed at the
\* transport level answers with the fixed retry-later message and the raw error
\* text is in the log; no response message ever holds a raw transport error.
C10_TransportFailuresNeverLeak ==
    \A r \in Requests :
        reply[r] # NilPtr =>
            /\ \A e \in TransportFailures(r) :
                   /\ reply[r][1].message = MsgRetryLater
                   /\ \E line \in sysLog : Contains(line, e)
            /\ \A e \in TransportErrors : ~Contains(reply[r][1].message, e)

\* How often request r has made the call op.
Count(r, op) == Cardinality({i \in 1..Len(ops[r]) : ops[r][i] = op})

\* An outbound call whose outcome is out failed: no connection, a status other
\* than 200, or a body that could not be read and decoded.
CallFailed(out) == out.doErr # "" \/ out.status # StatusOK \/ DecodeError(out) # ""

\* Request r's token exchange returned HTTP 200 with a non-empty access_token.
TokenGranted(r) ==
    /\ tokenRes[r] # NilPtr
    /\ ~CallFailed(tokenRes[r][1])
    /\ tokenRes[r][1].accessToken # ""

\* Request r has ended with an error response and call was its last call.
EndedInErrorAfter(r, call) ==
    /\ rpc[r] = "done"
    /\ reply[r] # NilPtr /\ ~reply[r][1].success
    /\ ops[r] # <<>> /\ ops[r][Len(ops[r])] = call

\* C11: no retries. A request issues the token exchange at most once and the
\* user-info call at most once; the user-info call only after a token exchange
\* that returned HTTP 200 with a non-empty access_token; and after a failed
\* outbound call the request has ended with an error response, that call being
\* the last one it made.
C11_NoRetries ==
    \A r \in Requests :
        /\ Count(r, "token") <= 1
        /\ Count(r, "user_info") <= 1
        /\ Count(r, "user_info") = 1 =>
               /\ TokenGranted(r)
               /\ Len(ops[r]) >= 2 /\ ops[r][1] = "token" /\ ops[r][2] = "user_info"
        /\ tokenRes[r] # NilPtr /\ CallFailed(tokenRes[r][1]) => EndedInErrorAfter(r, "token")
        /\ userRes[r] # NilPtr /\ CallFailed(userRes[r][1]) => EndedInErrorAfter(r, "user_info")

\* C11 witness: a request whose token exchange was granted and whose user-info
\* call then failed has ended, while another request failed at its token call.
C11_Witness ==
    \E r, q \in Requests :
        /\ TokenGranted(r)
        /\ userRes[r] # NilPtr /\ CallFailed(userRes[r][1])
        /\ ops[r] = <<"token", "user_info">> /\ rpc[r] = "done"
        /\ tokenRes[q] # NilPtr /\ CallFailed(tokenRes[q][1])
        /\ ops[q] = <<"token">> /\ rpc[q] = "done"

\* Request r has ended with a success response.
Succeeded(r) == rpc[r] = "done" /\ reply[r] # NilPtr /\ reply[r][1].success

\* C16: at most one user record carries a given LinuxDo id, and two requests
\* that presented the same LinuxDo identity for different accounts have not
\* both succeeded.
C16_LinuxDoIdUnique ==
    /\ \A i, j \in 1..Len(users) :
           (i # j /\ users[i].LinuxDoId # "") => users[i].LinuxDoId # users[j].LinuxDoId
    /\ \A r, q \in Requests :
           (/\ r # q
            /\ Succeeded(r) /\ Succeeded(q)
            /\ linuxDoUser[r][1].Id = linuxDoUser[q][1].Id)
               => user[r][1].Id = user[q][1].Id

\* Request r's state parameter is non-empty, its session holds an oauth_state,
\* and the two are equal.
StateMatches(r) ==
    /\ query[r].state # ""
    /\ session[r].oauth_state # NilPtr
    /\ query[r].state = session[r].oauth_state[1]

\* Request r has arrived and its state check has failed or will fail.
StateRejected(r) == rpc[r] # "idle" /\ ~StateMatches(r)

\* C17, in every state: a request that has made an outbound or a user-store
\* call passed the state check, and one that did not pass it has made no call
\* and, once past the check, has ended with HTTP 403.
C17_NoCallWithoutState ==
    \A r \in Requests :
        /\ ops[r] # <<>> => StateMatches(r)
        /\ StateRejected(r) =>
               /\ ops[r] = <<>>
               /\ rpc[r] \in {"entry", "done"}
               /\ rpc[r] = "done" =>
                      reply[r] # NilPtr /\ reply[r][1].status = StatusForbidden

\* C17, in every step: the step that answers a request whose state check
\* fails leaves the session and the user store as they were.
C17_RejectionChangesNothing ==
    \A r \in Requests :
        (StateRejected(r) /\ rpc'[r] # rpc[r]) =>
            /\ rpc'[r] = "done"
            /\ session' = session
            /\ users' = users

\* C17: the state check of LinuxDoOAuth comes first: no token exchange, user
\* lookup, insert, bind update or login without a state parameter that is
\* non-empty and equal to the session's oauth_state; a request failing the
\* check ends with HTTP 403, the session and the user store unchanged.
C17_StateCheckComesFirst ==
    []C17_NoCallWithoutState /\ [][C17_RejectionChangesNothing]_vars

\* C17 witness: a logged-in user's request with a code and a state that differs
\* from the session's has been answered with 403, while another request has
\* registered a user.
C17_Witness ==
    \E r, q \in Requests :
        /\ rpc[r] = "done"
        /\ query[r].state # "" /\ session[r].oauth_state # NilPtr /\ ~StateMatches(r)
        /\ query[r].code # "" /\ session[r].username # NilPtr
        /\ reply[r] # NilPtr /\ reply[r][1].status = StatusForbidden
        /\ "insert" \in {ops[q][i] : i \in 1..Len(ops[q])}
        /\ Succeeded(q)

\* Request r makes the call op in this step.
Calls(r, op) == ops'[r] = Append(ops[r], op)

\* C18, the steps of one request r.
C18_Gates(r) ==
    /\ Calls(r, "insert") =>
           /\ session[r].username = NilPtr
           /\ config.LinuxDoOAuthEnabled
           /\ \A i \in 1..Len(users) : users[i].LinuxDoId # Itoa(linuxDoUser[r][1].Id)
           /\ linuxDoUser[r][1].Active /\ linuxDoUser[r][1].TrustLevel >= 1
           /\ config.RegisterEnabled
    /\ Calls(r, "setup_login") => user[r][1].Status = "enabled"
    /\ session[r].username # NilPtr =>
           /\ ~Calls(r, "insert") /\ ~Calls(r, "setup_login")
           /\ (rpc[r] = "entry" /\ StateMatches(r) /\ rpc'[r] # rpc[r]) => rpc'[r] = "bind"

\* C18: LinuxDoOAuth inserts a user only when the session has no username,
\* LinuxDo OAuth is enabled, no user carries the returned LinuxDo id, the
\* LinuxDo account is active with trust_level >= 1 and registration is enabled;
\* it calls setupLogin only for a user whose status is enabled; and a request
\* whose session carries a username goes to the bind handler and neither
\* inserts a user nor calls setupLogin.
C18_LoginAndRegistrationGates == [][\A r \in Requests : C18_Gates(r)]_vars

====
